---- MODULE Spec2Model ----
(***************************************************************************)
(* The chat relay of src/integrated_app.py (class ChatModule): the accept  *)
(* loop, one handler thread per accepted connection, the shared client     *)
(* list with its lock, the broadcast fan-out, and start_server /           *)
(* stop_server called from the menu thread.                                *)
(*                                                                         *)
(* A byte stream is a sequence of symbols: "NL" is the newline byte, every *)
(* other symbol stands for the bytes of one piece of text.  recv returns   *)
(* any non-empty prefix of what the peer has sent so far, so consecutive   *)
(* lines may be coalesced into one read and a line may be cut from its     *)
(* newline.                                                                *)
(***************************************************************************)
EXTENDS Integers, Sequences, FiniteSets, TLC

\* ---- bounds of the model
MaxConns == 3
MaxLines == 2
MaxSends == 4
MaxStarts == 1
MaxFaults == 1
MaxCloses == 1
PairConns == 2
FanSends == 1
StreamSends == 3
MaxInputs == 2
MaxReplies == 1
MaxLogFaults == 1
MaxRuns == 2

Conns == 1..MaxConns

\* ---- symbols of the byte streams
NL == "NL"
QUIT == "/quit"
NICK == "alice"
AllLines == <<"a1", "a2", "a3", "a4">>

VARIABLES
    clients,      \* self._clients: the list of registered sockets
    lock,         \* holder of self._clients_lock: 0 when free, else a handler
    stopEvent,    \* self._stop_event
    serverReady,  \* self._server_ready
    srv,          \* position of the _server_loop thread
    mainpc,       \* position of the menu thread in start_server / stop_server
    pc,           \* position of each _handle_client thread
    name,         \* _handle_client's local `name`
    text,         \* _handle_client's local `text`
    bcIdx,        \* _broadcast: position of the list iterator
    bcDead,       \* _broadcast: the local list `dead`
    bcSnap,       \* history: the client list when the broadcast took the lock
    bcAtt,        \* history: the sendall calls of the broadcast in progress
    cst,          \* how far into its lines each client's byte stream was read
    pclosed,      \* the client has closed its end
    sclosed,      \* the server has closed the socket object
    inbox,        \* inbox[r][o]: the payloads from session o that reached client r
    env,          \* what the environment may still do (connections, lines,
                  \* starts of the server, socket faults), the clients that
                  \* send, those that give no nickname, and those whose
                  \* received lines are observed
    purged,       \* history: the sockets a broadcast has purged
    nremoved,     \* history: how often each socket was removed from the list
    lateWrite,    \* history: a sendall was attempted on a purged socket
    failed,       \* history: some sendall of a broadcast has failed
    nleave,       \* history: how often each session has broadcast its leave line
    lsock,        \* the listening socket of _server_loop: "none" before bind,
                  \* "failed" when bind or listen raised, "open", "closed"
    report,       \* what start_server last printed: "none", "ok" or "failed"
    cli,          \* one run of run_client: the positions of its two threads,
                  \* its stop_reader event, its socket and what the user and
                  \* the server may still do
    tlog,         \* the chat transcript file: the lines appended to it (kept
                  \* when tlog.on) and how many appends may still raise
    runs          \* the server loops: how many start_server has spawned, how
                  \* many of their threads are alive, and the loop that
                  \* accepted each connection

chatVars == <<clients, lock, stopEvent, serverReady, srv, mainpc, pc, name,
              text, bcIdx, bcDead, bcSnap, bcAtt, cst, pclosed, sclosed, inbox,
              env, purged, nremoved, lateWrite, failed, nleave, lsock, report,
              runs>>

vars == <<chatVars, cli, tlog>>

bcVars == <<bcIdx, bcDead, bcSnap, bcAtt>>
histVars == <<purged, nremoved, lateWrite, failed, nleave>>
srvVars == <<lsock, report>>

\* ---- str.strip() and str.rstrip("\n") on decoded text
RECURSIVE RStripNL(_)
RStripNL(s) ==
    IF s # <<>> /\ s[Len(s)] = NL THEN RStripNL(SubSeq(s, 1, Len(s) - 1)) ELSE s

RECURSIVE LStripNL(_)
LStripNL(s) ==
    IF s # <<>> /\ s[1] = NL THEN LStripNL(Tail(s)) ELSE s

Strip(s) == LStripNL(RStripNL(s))

\* f"{addr[0]}:{addr[1]}"
Fallback(c) == <<"addr">>

\* ---- list helpers
RECURSIVE RemoveFirst(_, _)
RemoveFirst(s, x) ==
    IF s = <<>> THEN <<>>
    ELSE IF s[1] = x THEN Tail(s)
    ELSE <<s[1]>> \o RemoveFirst(Tail(s), x)

InList(s, x) == \E i \in 1..Len(s) : s[i] = x

Range(s) == {s[i] : i \in 1..Len(s)}

\* ---- what a client sends (run_client, lines 520 and 546-555): the nickname
\* line, then chat lines, then possibly /quit.  cst[c] = [n, h]: n lines were
\* read whole; h tells whether the read position is at the start of a line
\* ("line"), behind the text of a line and before its newline ("text"), behind
\* the text /quit ("quit"), behind the line /quit, the client's last ("end"),
\* or behind the end of the stream or a failed read ("eof").
StartCst == [n |-> 0, h |-> "line"]

\* the next byte-stream symbol the client may have sent, and the position after
\* it; a client that gives no nickname (anon) sends an empty first line, and a
\* client that is not run_client may send empty lines later too (blank)
NextSyms(st, anon, blank) ==
    IF st.h = "line" THEN
        IF st.n = 0
        THEN IF anon THEN {<<NL, [n |-> 1, h |-> "line"]>>}
             ELSE {<<NICK, [n |-> 0, h |-> "text"]>>}
        ELSE {<<QUIT, [n |-> st.n, h |-> "quit"]>>}
             \cup (IF st.n <= MaxLines
                   THEN {<<AllLines[st.n], [n |-> st.n, h |-> "text"]>>}
                        \cup (IF blank
                              THEN {<<NL, [n |-> st.n + 1, h |-> "line"]>>}
                              ELSE {})
                   ELSE {})
    ELSE IF st.h = "text" THEN {<<NL, [n |-> st.n + 1, h |-> "line"]>>}
    ELSE IF st.h = "quit" THEN {<<NL, [n |-> st.n, h |-> "end"]>>}
    ELSE {}

\* conn.recv(n) returns any non-empty run of the bytes sent so far: every run of
\* symbols from position st that starts at most `lines` new lines
RECURSIVE Reads(_, _, _, _, _)
Reads(st, lines, len, anon, blank) ==
    LET left == IF st.h = "line" THEN lines - 1 ELSE lines IN
    IF len = 0 \/ left < 0 THEN {}
    ELSE UNION {
           {[data |-> <<x[1]>>, st |-> x[2], lines |-> left]}
           \cup {[data |-> <<x[1]>> \o r.data, st |-> r.st, lines |-> r.lines] :
                 r \in Reads(x[2], left, len - 1, anon, blank)}
         : x \in NextSyms(st, anon, blank)}

MaxRead == 2 * (MaxLines + 2)

\* a read that returns exactly one line with its newline
WholeLine(r) == Len(RStripNL(r.data)) = Len(r.data) - 1 /\ Len(r.data) <= 2

\* what a read of connection c may return: nothing from a client that is not
\* among those sending; one whole line per read unless the environment also
\* coalesces and splits lines
Chunks(c) ==
    IF c \notin env.talk THEN {}
    ELSE IF env.glue
         THEN Reads(cst[c], env.sends, MaxRead, c \in env.anon, env.blank)
    ELSE {r \in Reads(cst[c], env.sends, 2, c \in env.anon, env.blank) :
            WholeLine(r)}

\* ---- the payloads of lines 416, 432 and 438, kept as their parts
JoinMsg(c) == [k |-> "join", o |-> c, nm |-> name[c], tx |-> <<>>]
ChatLine(c) == [k |-> "chat", o |-> c, nm |-> name[c], tx |-> text[c]]
LeaveMsg(c) == [k |-> "leave", o |-> c, nm |-> name[c], tx |-> <<>>]

WaitPcs == {"join", "chat", "leave"}
BcPcs == {"join_bc", "chat_bc", "leave_bc"}

Payload(c) ==
    CASE pc[c] \in {"join", "join_bc"} -> JoinMsg(c)
      [] pc[c] \in {"chat", "chat_bc"} -> ChatLine(c)
      [] OTHER -> LeaveMsg(c)

InBc(c) == IF pc[c] = "join" THEN "join_bc"
           ELSE IF pc[c] = "chat" THEN "chat_bc" ELSE "leave_bc"

\* a handler that returns to its receive loop after every broadcast
AfterBcAgain(c) == "chk"

\* line 420 and 436 lead to the loop test, line 449 ends the handler
AfterBc(c) == IF pc[c] = "leave_bc" THEN "done" ELSE "chk"

\* a broadcast that excludes nobody
NoSender(c) == 0

\* the `sender` argument the call sites of lines 420, 436 and 449 pass
Sender(c) == c

\* client.sendall(payload): fails on a socket object the server has closed, may
\* fail or be lost on a connection the peer has closed, succeeds otherwise
SendOutcomes(r) ==
    IF sclosed[r] THEN {FALSE}
    ELSE IF pclosed[r] THEN {TRUE, FALSE}
    ELSE {TRUE}

\* a transport that hands the newest payload over first
DeliverAhead(r, ok, p) ==
    IF ok /\ ~pclosed[r] /\ r \in env.watch
    THEN [inbox EXCEPT ![r][p.o] = <<p>> \o @]
    ELSE inbox

\* what a successful sendall leaves at the client
Deliver(r, ok, p) ==
    IF ok /\ ~pclosed[r] /\ r \in env.watch
    THEN [inbox EXCEPT ![r][p.o] = Append(@, p)]
    ELSE inbox

\* a purge that empties the list when any write has failed
PurgeAll(cl, dead) == IF dead = <<>> THEN cl ELSE <<>>

\* a purge that removes nothing
PurgeKeep(cl, dead) == cl

\* lines 401-408: close every dead socket and remove it if still listed
RECURSIVE Purge(_, _)
Purge(cl, dead) ==
    IF dead = <<>> THEN cl
    ELSE Purge(IF InList(cl, dead[1]) THEN RemoveFirst(cl, dead[1]) ELSE cl,
               Tail(dead))

\* an iteration that a failed write ends
AbortIdx(ok) == IF ok THEN bcIdx + 1 ELSE Len(clients) + 1

\* lines 397-400: the iterator moves on whether or not the write failed
NextIdx(ok) == bcIdx + 1

\* a list that is changed without taking the lock
NoLock == TRUE

\* with self._clients_lock (lines 442, 473 and 478)
CanLock == lock = 0

\* a teardown that leaves the list alone
UnregisterNever(cl, c) == cl

\* lines 443-444
Unregister(cl, c) == IF InList(cl, c) THEN RemoveFirst(cl, c) ELSE cl

\* ---- _broadcast
\* line 393: with self._clients_lock
BcAcquire(c) ==
    /\ pc[c] \in WaitPcs
    /\ lock = 0
    /\ lock' = c
    /\ pc' = [pc EXCEPT ![c] = InBc(c)]
    /\ bcIdx' = 1
    /\ bcDead' = <<>>
    /\ bcSnap' = clients
    /\ bcAtt' = <<>>
    /\ nleave' = [nleave EXCEPT ![c] = IF pc[c] = "leave" THEN @ + 1 ELSE @]
    /\ UNCHANGED <<clients, stopEvent, serverReady, srv, mainpc, name, text, cst,
                   pclosed, sclosed, inbox, env>>
    /\ UNCHANGED <<purged, nremoved, lateWrite, failed>>
    /\ UNCHANGED srvVars
    /\ UNCHANGED cli
    /\ UNCHANGED tlog
    /\ UNCHANGED runs

\* lines 394-400: one turn of `for client in self._clients`
BcStep(c) ==
    /\ pc[c] \in BcPcs
    /\ lock = c
    /\ bcIdx <= Len(clients)
    /\ LET r == clients[bcIdx] IN
         IF r = Sender(c)
         THEN /\ bcIdx' = bcIdx + 1
              /\ UNCHANGED <<bcDead, bcAtt, inbox, lateWrite, failed>>
         ELSE \E ok \in SendOutcomes(r) :
              /\ bcIdx' = NextIdx(ok)
              /\ bcDead' = IF ok THEN bcDead ELSE Append(bcDead, r)
              /\ bcAtt' = Append(bcAtt, <<r, ok>>)
              /\ inbox' = Deliver(r, ok, Payload(c))
              /\ lateWrite' = (lateWrite \/ r \in purged)
              /\ failed' = (failed \/ ~ok)
    /\ UNCHANGED <<clients, lock, stopEvent, serverReady, srv, mainpc, pc, name,
                   text, bcSnap, cst, pclosed, sclosed, env, purged, nremoved,
                   nleave>>
    /\ UNCHANGED srvVars
    /\ UNCHANGED cli
    /\ UNCHANGED tlog
    /\ UNCHANGED runs

\* a broadcast that ends without releasing the lock
BcFinishHolding(c) ==
    /\ pc[c] \in BcPcs
    /\ lock = c
    /\ bcIdx > Len(clients)
    /\ sclosed' = [x \in Conns |-> sclosed[x] \/ x \in Range(bcDead)]
    /\ clients' = Purge(clients, bcDead)
    /\ purged' = purged \cup Range(bcDead)
    /\ nremoved' = [x \in Conns |->
                      IF x \in Range(bcDead) /\ InList(clients, x)
                      THEN nremoved[x] + 1 ELSE nremoved[x]]
    /\ lock' = lock
    /\ pc' = [pc EXCEPT ![c] = AfterBc(c)]
    /\ bcIdx' = 0
    /\ bcDead' = <<>>
    /\ bcSnap' = <<>>
    /\ bcAtt' = <<>>
    /\ text' = [text EXCEPT ![c] = <<>>]
    /\ UNCHANGED <<stopEvent, serverReady, srv, mainpc, name, cst, pclosed,
                   inbox, env, lateWrite, failed, nleave>>
    /\ UNCHANGED srvVars
    /\ UNCHANGED cli
    /\ UNCHANGED tlog
    /\ UNCHANGED runs

\* lines 401-408 and the end of the with block
BcFinish(c) ==
    /\ pc[c] \in BcPcs
    /\ lock = c
    /\ bcIdx > Len(clients)
    /\ sclosed' = [x \in Conns |-> sclosed[x] \/ x \in Range(bcDead)]
    /\ clients' = Purge(clients, bcDead)
    /\ purged' = purged \cup Range(bcDead)
    /\ nremoved' = [x \in Conns |->
                      IF x \in Range(bcDead) /\ InList(clients, x)
                      THEN nremoved[x] + 1 ELSE nremoved[x]]
    /\ lock' = 0
    /\ pc' = [pc EXCEPT ![c] = AfterBc(c)]
    /\ bcIdx' = 0
    /\ bcDead' = <<>>
    /\ bcSnap' = <<>>
    /\ bcAtt' = <<>>
    /\ text' = [text EXCEPT ![c] = <<>>]
    /\ UNCHANGED <<stopEvent, serverReady, srv, mainpc, name, cst, pclosed,
                   inbox, env, lateWrite, failed, nleave>>
    /\ UNCHANGED srvVars
    /\ UNCHANGED cli
    /\ UNCHANGED tlog
    /\ UNCHANGED runs

\* ---- _handle_client
\* line 413
NameOf(c, data) == IF Strip(data) = <<>> THEN Fallback(c) ELSE Strip(data)

\* a read that finds the stream ended, or fails, ends what can arrive
Ended(st) == [n |-> st.n, h |-> "eof"]

\* lines 385-389: _log_chat_line appends one line to the transcript
Appended(line) == IF tlog.on THEN [tlog EXCEPT !.seq = Append(@, line)] ELSE tlog

\* a handler that goes on without appending the line
LogSkipped(c, line, okpc, badpc) ==
    /\ tlog' = tlog
    /\ pc' = [pc EXCEPT ![c] = okpc]

\* a call of _log_chat_line in handler c: the line is appended and the handler
\* goes on to `okpc`, or the append raises and the handler goes where the
\* exception takes it
LogThen(c, line, okpc, badpc) ==
    \/ /\ tlog' = Appended(line)
       /\ pc' = [pc EXCEPT ![c] = okpc]
    \/ /\ tlog.faults > 0
       /\ tlog' = [tlog EXCEPT !.faults = @ - 1]
       /\ pc' = [pc EXCEPT ![c] = badpc]

\* lines 411-419: the one handshake read, with its fallbacks, and the join log;
\* an exception of the log calls leaves _handle_client, which has no handler
\* for it
Handshake(c) ==
    /\ pc[c] = "hs"
    /\ \/ /\ ~sclosed[c]
          /\ \E r \in Chunks(c) :
               /\ name' = [name EXCEPT ![c] = NameOf(c, r.data)]
               /\ cst' = [cst EXCEPT ![c] = r.st]
               /\ env' = [env EXCEPT !.sends = r.lines]
       \/ /\ sclosed[c] \/ pclosed[c]         \* OSError, or a zero-length read
          /\ name' = [name EXCEPT ![c] = Fallback(c)]
          /\ cst' = [cst EXCEPT ![c] = Ended(@)]
          /\ UNCHANGED env
       \/ /\ ~sclosed[c] /\ ~pclosed[c]       \* socket.timeout
          /\ name' = [name EXCEPT ![c] = Fallback(c)]
          /\ UNCHANGED <<cst, env>>
    /\ LogThen(c, [k |-> "join", o |-> c, nm |-> name'[c], tx |-> <<>>],
               "join", "dead")
    /\ UNCHANGED <<clients, lock, stopEvent, serverReady, srv, mainpc, text,
                   pclosed, sclosed, inbox>>
    /\ UNCHANGED bcVars
    /\ UNCHANGED histVars
    /\ UNCHANGED srvVars
    /\ UNCHANGED cli
    /\ UNCHANGED runs

\* line 422: while not self._stop_event.is_set()
LoopCheck(c) ==
    /\ pc[c] = "chk"
    /\ pc' = [pc EXCEPT ![c] = IF stopEvent THEN "td" ELSE "recv"]
    /\ UNCHANGED <<clients, lock, stopEvent, serverReady, srv, mainpc, name, text,
                   cst, pclosed, sclosed, inbox, env>>
    /\ UNCHANGED bcVars
    /\ UNCHANGED histVars
    /\ UNCHANGED srvVars
    /\ UNCHANGED cli
    /\ UNCHANGED tlog
    /\ UNCHANGED runs

\* line 429: text = data.decode("utf-8", errors="ignore").rstrip("\n")
TextOf(data) == RStripNL(data)

\* lines 430-431: what one read leads to
AfterRead(data) == IF TextOf(data) = <<QUIT>> THEN "td" ELSE "chat"

\* a read on a socket without the timeout of line 475: it returns only when
\* bytes or the end of the stream arrive
RecvBlocking(c) ==
    /\ pc[c] = "recv"
    /\ \/ /\ ~sclosed[c]
          /\ \E r \in Chunks(c) :
               /\ text' = [text EXCEPT ![c] = TextOf(r.data)]
               /\ cst' = [cst EXCEPT ![c] = r.st]
               /\ env' = [env EXCEPT !.sends = r.lines]
               /\ IF AfterRead(r.data) = "chat"
                  THEN LogThen(c, [k |-> "chat", o |-> c, nm |-> name[c],
                                   tx |-> TextOf(r.data)], "chat", "td")
                  ELSE /\ pc' = [pc EXCEPT ![c] = "td"]
                       /\ UNCHANGED tlog
       \/ /\ pclosed[c]
          /\ pc' = [pc EXCEPT ![c] = "td"]
          /\ cst' = [cst EXCEPT ![c] = Ended(@)]
          /\ UNCHANGED <<text, env, tlog>>
    /\ UNCHANGED <<clients, lock, stopEvent, serverReady, srv, mainpc, name,
                   pclosed, sclosed, inbox>>
    /\ UNCHANGED bcVars
    /\ UNCHANGED histVars
    /\ UNCHANGED srvVars
    /\ UNCHANGED cli
    /\ UNCHANGED runs

\* a receive loop without the finally block of line 437: a read that fails or
\* finds the stream ended leaves the handler at once
RecvNoFinally(c) ==
    /\ pc[c] = "recv"
    /\ \/ /\ ~sclosed[c]
          /\ \E r \in Chunks(c) :
               /\ text' = [text EXCEPT ![c] = TextOf(r.data)]
               /\ cst' = [cst EXCEPT ![c] = r.st]
               /\ env' = [env EXCEPT !.sends = r.lines]
               /\ IF AfterRead(r.data) = "chat"
                  THEN LogThen(c, [k |-> "chat", o |-> c, nm |-> name[c],
                                   tx |-> TextOf(r.data)], "chat", "td")
                  ELSE /\ pc' = [pc EXCEPT ![c] = "td"]
                       /\ UNCHANGED tlog
       \/ /\ sclosed[c] \/ pclosed[c]
          /\ pc' = [pc EXCEPT ![c] = "done"]
          /\ cst' = [cst EXCEPT ![c] = Ended(@)]
          /\ UNCHANGED <<text, env, tlog>>
       \/ /\ ~sclosed[c] /\ ~pclosed[c]
          /\ pc' = [pc EXCEPT ![c] = "chk"]
          /\ UNCHANGED <<text, cst, env, tlog>>
    /\ UNCHANGED <<clients, lock, stopEvent, serverReady, srv, mainpc, name,
                   pclosed, sclosed, inbox>>
    /\ UNCHANGED bcVars
    /\ UNCHANGED histVars
    /\ UNCHANGED srvVars
    /\ UNCHANGED cli
    /\ UNCHANGED runs

\* lines 423-435: one read of the receive loop
Recv(c) ==
    /\ pc[c] = "recv"
    /\ \/ /\ ~sclosed[c]
          /\ \E r \in Chunks(c) :
               /\ text' = [text EXCEPT ![c] = TextOf(r.data)]
               /\ cst' = [cst EXCEPT ![c] = r.st]
               /\ env' = [env EXCEPT !.sends = r.lines]
               /\ IF AfterRead(r.data) = "chat"
                  THEN LogThen(c, [k |-> "chat", o |-> c, nm |-> name[c],
                                   tx |-> TextOf(r.data)], "chat", "td")
                  ELSE /\ pc' = [pc EXCEPT ![c] = "td"]
                       /\ UNCHANGED tlog
       \/ /\ sclosed[c] \/ pclosed[c]         \* OSError, or a zero-length read
          /\ pc' = [pc EXCEPT ![c] = "td"]
          /\ cst' = [cst EXCEPT ![c] = Ended(@)]
          /\ UNCHANGED <<text, env, tlog>>
       \/ /\ ~sclosed[c] /\ ~pclosed[c]       \* socket.timeout
          /\ pc' = [pc EXCEPT ![c] = "chk"]
          /\ UNCHANGED <<text, cst, env, tlog>>
    /\ UNCHANGED <<clients, lock, stopEvent, serverReady, srv, mainpc, name,
                   pclosed, sclosed, inbox>>
    /\ UNCHANGED bcVars
    /\ UNCHANGED histVars
    /\ UNCHANGED srvVars
    /\ UNCHANGED cli
    /\ UNCHANGED runs

\* a teardown that removes its session without taking the lock
TeardownUnlocked(c) ==
    /\ pc[c] = "td"
    /\ \/ /\ NoLock
          /\ tlog' = Appended(LeaveMsg(c))
          /\ clients' = Unregister(clients, c)
          /\ nremoved' = [nremoved EXCEPT
                             ![c] = IF InList(clients, c) THEN @ + 1 ELSE @]
          /\ sclosed' = [sclosed EXCEPT ![c] = TRUE]
          /\ pc' = [pc EXCEPT ![c] = "leave"]
       \/ /\ tlog.faults > 0
          /\ tlog' = [tlog EXCEPT !.faults = @ - 1]
          /\ pc' = [pc EXCEPT ![c] = "dead"]
          /\ UNCHANGED <<clients, nremoved, sclosed>>
    /\ UNCHANGED <<lock, stopEvent, serverReady, srv, mainpc, name, text, cst,
                   pclosed, inbox, env, purged, lateWrite, failed, nleave>>
    /\ UNCHANGED bcVars
    /\ UNCHANGED srvVars
    /\ UNCHANGED cli
    /\ UNCHANGED runs

\* lines 438-448: the leave log, the removal under the lock, conn.close(); an
\* exception of the log calls leaves the finally block before the removal
Teardown(c) ==
    /\ pc[c] = "td"
    /\ \/ /\ CanLock
          /\ tlog' = Appended(LeaveMsg(c))
          /\ clients' = Unregister(clients, c)
          /\ nremoved' = [nremoved EXCEPT
                             ![c] = IF InList(clients, c) THEN @ + 1 ELSE @]
          /\ sclosed' = [sclosed EXCEPT ![c] = TRUE]
          /\ pc' = [pc EXCEPT ![c] = "leave"]
       \/ /\ tlog.faults > 0
          /\ tlog' = [tlog EXCEPT !.faults = @ - 1]
          /\ pc' = [pc EXCEPT ![c] = "dead"]
          /\ UNCHANGED <<clients, nremoved, sclosed>>
    /\ UNCHANGED <<lock, stopEvent, serverReady, srv, mainpc, name, text, cst,
                   pclosed, inbox, env, purged, lateWrite, failed, nleave>>
    /\ UNCHANGED bcVars
    /\ UNCHANGED srvVars
    /\ UNCHANGED cli
    /\ UNCHANGED runs

\* ---- _server_loop
Alive == srv # "off"

\* a server loop that sets the ready flag before it binds
SrvBindReadyFirst ==
    /\ srv = "bind"
    /\ serverReady' = TRUE
    /\ \/ /\ srv' = "chk"
          /\ lsock' = "open"
          /\ UNCHANGED env
       \/ /\ env.faults > 0
          /\ env' = [env EXCEPT !.faults = @ - 1]
          /\ srv' = "fin"
          /\ lsock' = "failed"
    /\ UNCHANGED <<clients, lock, stopEvent, mainpc, pc, name, text, cst, pclosed,
                   sclosed, inbox, report>>
    /\ UNCHANGED bcVars
    /\ UNCHANGED histVars
    /\ UNCHANGED cli
    /\ UNCHANGED tlog
    /\ UNCHANGED runs

\* lines 453-462: bind and listen succeed, or raise into the finally block
SrvBind ==
    /\ srv = "bind"
    /\ \/ /\ srv' = "chk"
          /\ lsock' = "open"
          /\ serverReady' = TRUE
          /\ UNCHANGED env
       \/ /\ env.faults > 0
          /\ env' = [env EXCEPT !.faults = @ - 1]
          /\ srv' = "fin"
          /\ lsock' = "failed"
          /\ UNCHANGED serverReady
    /\ UNCHANGED <<clients, lock, stopEvent, mainpc, pc, name, text, cst, pclosed,
                   sclosed, inbox, report>>
    /\ UNCHANGED bcVars
    /\ UNCHANGED histVars
    /\ UNCHANGED cli
    /\ UNCHANGED tlog
    /\ UNCHANGED runs

\* line 463: while not self._stop_event.is_set(); leaving the loop leaves the
\* with block of line 453, which closes the listening socket
SrvCheck ==
    /\ srv = "chk"
    /\ srv' = IF stopEvent THEN "fin" ELSE "accept"
    /\ lsock' = IF stopEvent THEN "closed" ELSE lsock
    /\ UNCHANGED <<clients, lock, stopEvent, serverReady, mainpc, pc, name, text,
                   cst, pclosed, sclosed, inbox, env, report>>
    /\ UNCHANGED bcVars
    /\ UNCHANGED histVars
    /\ UNCHANGED cli
    /\ UNCHANGED tlog
    /\ UNCHANGED runs

\* the next connection handle accept() returns
NextConn == Cardinality({c \in Conns : pc[c] # "none"}) + 1

\* lines 465-476: accept returns a connection, which is appended to the list
\* under the lock and handed to a new handler thread
SrvAccept ==
    /\ srv = "accept"
    /\ NextConn \in Conns
    /\ env.conns > 0
    /\ env' = [env EXCEPT !.conns = @ - 1]
    /\ CanLock
    /\ clients' = Append(clients, NextConn)
    /\ pc' = [pc EXCEPT ![NextConn] = "hs"]
    /\ srv' = "chk"
    /\ runs' = [runs EXCEPT !.born[NextConn] = runs.n]
    /\ UNCHANGED <<lock, stopEvent, serverReady, mainpc, name, text, cst, pclosed,
                   sclosed, inbox>>
    /\ UNCHANGED bcVars
    /\ UNCHANGED histVars
    /\ UNCHANGED srvVars
    /\ UNCHANGED cli
    /\ UNCHANGED tlog

\* lines 466-467: accept times out after a second
SrvAcceptTimeout ==
    /\ srv = "accept"
    /\ srv' = "chk"
    /\ UNCHANGED <<clients, lock, stopEvent, serverReady, mainpc, pc, name, text,
                   cst, pclosed, sclosed, inbox, env>>
    /\ UNCHANGED bcVars
    /\ UNCHANGED histVars
    /\ UNCHANGED srvVars
    /\ UNCHANGED cli
    /\ UNCHANGED tlog
    /\ UNCHANGED runs

\* lines 468-472: accept raises OSError, and the loop breaks either way
SrvAcceptError ==
    /\ srv = "accept"
    /\ env.faults > 0
    /\ env' = [env EXCEPT !.faults = @ - 1]
    /\ srv' = "fin"
    /\ lsock' = "closed"
    /\ UNCHANGED <<clients, lock, stopEvent, serverReady, mainpc, pc, name, text,
                   cst, pclosed, sclosed, inbox, report>>
    /\ UNCHANGED bcVars
    /\ UNCHANGED histVars
    /\ UNCHANGED cli
    /\ UNCHANGED tlog
    /\ UNCHANGED runs

\* a finally block without the clear() of line 484
SrvFinallyNoClear ==
    /\ srv = "fin"
    /\ CanLock
    /\ sclosed' = [x \in Conns |-> sclosed[x] \/ InList(clients, x)]
    /\ serverReady' = FALSE
    /\ srv' = "exit"
    /\ UNCHANGED <<clients, lock, stopEvent, mainpc, pc, name, text, cst, pclosed,
                   inbox, env>>
    /\ UNCHANGED bcVars
    /\ UNCHANGED histVars
    /\ UNCHANGED srvVars
    /\ UNCHANGED cli
    /\ UNCHANGED tlog
    /\ UNCHANGED runs

\* lines 478-485: close every listed socket, clear the list, clear the ready flag
SrvFinally ==
    /\ srv = "fin"
    /\ CanLock
    /\ sclosed' = [x \in Conns |-> sclosed[x] \/ InList(clients, x)]
    /\ nremoved' = [x \in Conns |->
                      IF InList(clients, x) THEN nremoved[x] + 1 ELSE nremoved[x]]
    /\ clients' = <<>>
    /\ serverReady' = FALSE
    /\ srv' = "exit"
    /\ UNCHANGED <<lock, stopEvent, mainpc, pc, name, text, cst, pclosed, inbox,
                   env, purged, lateWrite, failed, nleave>>
    /\ UNCHANGED bcVars
    /\ UNCHANGED srvVars
    /\ UNCHANGED cli
    /\ UNCHANGED tlog
    /\ UNCHANGED runs

\* lines 486-487: the last log line, after which the thread is no longer alive
SrvExit ==
    /\ srv = "exit"
    /\ srv' = "off"
    /\ runs' = [runs EXCEPT !.live = @ - 1]
    /\ UNCHANGED <<clients, lock, stopEvent, serverReady, mainpc, pc, name, text,
                   cst, pclosed, sclosed, inbox, env>>
    /\ UNCHANGED bcVars
    /\ UNCHANGED histVars
    /\ UNCHANGED srvVars
    /\ UNCHANGED cli
    /\ UNCHANGED tlog

\* ---- start_server and stop_server, called from the menu thread
Idle == mainpc = "idle"

\* a start_server that does not look whether the server thread is alive
StartServerBlind ==
    /\ Idle
    /\ env.starts > 0
    /\ env' = [env EXCEPT !.starts = @ - 1]
    /\ stopEvent' = FALSE
    /\ srv' = "bind"
    /\ lsock' = "none"
    /\ report' = "none"
    /\ mainpc' = "start_wait"
    /\ runs' = [runs EXCEPT !.n = @ + 1, !.live = @ + 1]
    /\ UNCHANGED <<clients, lock, serverReady, pc, name, text, cst, pclosed,
                   sclosed, inbox>>
    /\ UNCHANGED bcVars
    /\ UNCHANGED histVars
    /\ UNCHANGED cli
    /\ UNCHANGED tlog

\* lines 490-495
StartServer ==
    /\ Idle
    /\ IF Alive
       THEN UNCHANGED <<stopEvent, srv, env, mainpc, lsock, report, runs>>
       ELSE /\ env.starts > 0
            /\ env' = [env EXCEPT !.starts = @ - 1]
            /\ stopEvent' = FALSE
            /\ srv' = "bind"
            /\ lsock' = "none"
            /\ report' = "none"
            /\ mainpc' = "start_wait"
            /\ runs' = [runs EXCEPT !.n = @ + 1, !.live = @ + 1]
    /\ UNCHANGED <<clients, lock, serverReady, pc, name, text, cst, pclosed,
                   sclosed, inbox>>
    /\ UNCHANGED bcVars
    /\ UNCHANGED histVars
    /\ UNCHANGED cli
    /\ UNCHANGED tlog

\* line 496: whether self._server_ready.wait(timeout=2) has seen the flag set:
\* it has once the server thread has set it, also when the flag was cleared
\* again since; the timeout may expire at any moment before that
Signalled == lsock \in {"open", "closed"}

\* lines 496-500: the wait and the message printed after it
StartWait ==
    /\ mainpc = "start_wait"
    /\ mainpc' = "idle"
    /\ report' = IF Signalled THEN "ok" ELSE "failed"
    /\ UNCHANGED <<clients, lock, stopEvent, serverReady, srv, pc, name, text,
                   cst, pclosed, sclosed, inbox, env, lsock>>
    /\ UNCHANGED bcVars
    /\ UNCHANGED histVars
    /\ UNCHANGED cli
    /\ UNCHANGED tlog
    /\ UNCHANGED runs

\* lines 503-506
StopServer ==
    /\ Idle
    /\ IF ~Alive
       THEN UNCHANGED <<stopEvent, mainpc>>
       ELSE /\ stopEvent' = TRUE
            /\ mainpc' = "stop_join"
    /\ UNCHANGED <<clients, lock, serverReady, srv, pc, name, text, cst, pclosed,
                   sclosed, inbox, env>>
    /\ UNCHANGED bcVars
    /\ UNCHANGED histVars
    /\ UNCHANGED srvVars
    /\ UNCHANGED cli
    /\ UNCHANGED tlog
    /\ UNCHANGED runs

\* lines 507-512: join(timeout=3) returns when the thread has ended or on timeout
StopJoin ==
    /\ mainpc = "stop_join"
    /\ mainpc' = "idle"
    /\ UNCHANGED <<clients, lock, stopEvent, serverReady, srv, pc, name, text,
                   cst, pclosed, sclosed, inbox, env>>
    /\ UNCHANGED bcVars
    /\ UNCHANGED histVars
    /\ UNCHANGED srvVars
    /\ UNCHANGED cli
    /\ UNCHANGED tlog
    /\ UNCHANGED runs

\* ---- the clients
\* the end of the with block of line 517, or a client that goes away
ClientClose(c) ==
    /\ pc[c] # "none"
    /\ ~pclosed[c]
    /\ ~sclosed[c]
    /\ env.closes > 0
    /\ env' = [env EXCEPT !.closes = @ - 1]
    /\ pclosed' = [pclosed EXCEPT ![c] = TRUE]
    /\ UNCHANGED <<clients, lock, stopEvent, serverReady, srv, mainpc, pc, name,
                   text, cst, sclosed, inbox>>
    /\ UNCHANGED bcVars
    /\ UNCHANGED histVars
    /\ UNCHANGED srvVars
    /\ UNCHANGED cli
    /\ UNCHANGED tlog
    /\ UNCHANGED runs

\* ---- run_client (lines 514-563): the main thread, which is the writer half,
\* and the reader thread.  cli.conn is the connection as the client's socket
\* sees it: "up", "eof" once the server has closed it, "broken" once reads and
\* writes on it fail.
NoLog == [on |-> FALSE, faults |-> 0, seq |-> <<>>]

InitCli ==
    [w |-> "connect", r |-> "none", msg |-> "", stop |-> FALSE, conn |-> "up",
     nclose |-> 0, nquit |-> 0, late |-> FALSE, wexit |-> "", rexit |-> "",
     timed |-> FALSE, inputs |-> 0, replies |-> 0, drops |-> 0]

\* line 519: connect succeeds or is refused
WriterConnect ==
    /\ cli.w = "connect"
    /\ \/ cli' = [cli EXCEPT !.w = "hello"]
       \/ cli' = [cli EXCEPT !.w = "exit", !.wexit = "refused",
                              !.conn = "broken"]
    /\ UNCHANGED chatVars
    /\ UNCHANGED tlog

\* the result of sock.sendall on the client's socket
CliSendOk == IF cli.conn = "up" THEN {TRUE}
             ELSE IF cli.conn = "eof" THEN {TRUE, FALSE} ELSE {FALSE}

\* lines 520-544: the nickname is sent and the reader thread is started
WriterHello ==
    /\ cli.w = "hello"
    /\ \E ok \in CliSendOk :
         cli' = IF ok THEN [cli EXCEPT !.w = "loop", !.r = "chk"]
                ELSE [cli EXCEPT !.w = "exit", !.wexit = "error"]
    /\ UNCHANGED chatVars
    /\ UNCHANGED tlog

\* line 546: while not stop_reader.is_set()
WriterLoop ==
    /\ cli.w = "loop"
    /\ cli' = IF cli.stop THEN [cli EXCEPT !.w = "after", !.wexit = "stop"]
              ELSE [cli EXCEPT !.w = "input"]
    /\ UNCHANGED chatVars
    /\ UNCHANGED tlog

\* lines 547-552: input() returns when the user enters a line or closes the
\* input; an empty line goes back to the loop test
WriterInput ==
    /\ cli.w = "input"
    /\ cli.inputs > 0
    /\ \E m \in {"", "text", "/quit", "EOF"} :
         cli' = IF m = ""
                THEN [cli EXCEPT !.w = "loop", !.inputs = @ - 1]
                ELSE [cli EXCEPT !.w = "send", !.inputs = @ - 1,
                                 !.msg = IF m = "EOF" THEN "/quit" ELSE m,
                                 !.wexit = IF m = "EOF" THEN "eof" ELSE ""]
    /\ UNCHANGED chatVars
    /\ UNCHANGED tlog

\* a writer that goes on with its loop after sending /quit
WriterSendOn ==
    /\ cli.w = "send"
    /\ \E ok \in CliSendOk :
         cli' = IF ~ok THEN [cli EXCEPT !.w = "exit", !.wexit = "error"]
                ELSE IF cli.msg = "/quit"
                THEN [cli EXCEPT !.w = "loop", !.nquit = @ + 1,
                                 !.late = @ \/ cli.nquit > 0,
                                 !.wexit = IF @ = "" THEN "quit" ELSE @]
                ELSE [cli EXCEPT !.w = "loop", !.late = @ \/ cli.nquit > 0]
    /\ UNCHANGED chatVars
    /\ UNCHANGED tlog

\* lines 553-555: the line is sent; /quit ends the loop, a failed send leaves
\* the with block through the exception
WriterSend ==
    /\ cli.w = "send"
    /\ \E ok \in CliSendOk :
         cli' = IF ~ok THEN [cli EXCEPT !.w = "exit", !.wexit = "error"]
                ELSE IF cli.msg = "/quit"
                THEN [cli EXCEPT !.w = "after", !.nquit = @ + 1,
                                 !.late = @ \/ cli.nquit > 0,
                                 !.wexit = IF @ = "" THEN "quit" ELSE @]
                ELSE [cli EXCEPT !.w = "loop", !.late = @ \/ cli.nquit > 0]
    /\ UNCHANGED chatVars
    /\ UNCHANGED tlog

\* line 556: stop_reader.set()
WriterStop ==
    /\ cli.w = "after"
    /\ cli' = [cli EXCEPT !.w = "join", !.stop = TRUE]
    /\ UNCHANGED chatVars
    /\ UNCHANGED tlog

\* line 557: reader_thread.join(timeout=1) returns when the reader has ended
\* or after a second
WriterJoin ==
    /\ cli.w = "join"
    /\ cli' = [cli EXCEPT !.w = "exit"]
    /\ UNCHANGED chatVars
    /\ UNCHANGED tlog

\* the end of the with block of line 517 closes the socket, on every way out
WriterExit ==
    /\ cli.w = "exit"
    /\ cli' = [cli EXCEPT !.w = "done", !.nclose = @ + 1]
    /\ UNCHANGED chatVars
    /\ UNCHANGED tlog

\* line 527: while not stop_reader.is_set()
ReaderLoop ==
    /\ cli.r = "chk"
    /\ cli' = IF cli.stop THEN [cli EXCEPT !.r = "fin", !.rexit = "stop"]
              ELSE [cli EXCEPT !.r = "recv"]
    /\ UNCHANGED chatVars
    /\ UNCHANGED tlog

\* lines 528-540: sock.recv returns data, or nothing once the server has
\* closed, or raises on a broken or locally closed socket, or times out when
\* the settings give the socket a timeout
ReaderRecv ==
    /\ cli.r = "recv"
    /\ \/ /\ cli.nclose = 0 /\ cli.conn = "up" /\ cli.replies > 0
          /\ cli' = [cli EXCEPT !.r = "chk", !.replies = @ - 1]
       \/ /\ cli.nclose = 0 /\ cli.conn = "eof"
          /\ cli' = [cli EXCEPT !.r = "fin", !.rexit = "peer"]
       \/ /\ cli.nclose = 0 /\ cli.conn = "broken"
          /\ cli' = [cli EXCEPT !.r = "fin", !.rexit = "peer"]
       \/ /\ cli.nclose > 0
          /\ cli' = [cli EXCEPT !.r = "fin", !.rexit = "closed"]
       \/ /\ cli.timed
          /\ cli' = [cli EXCEPT !.r = "chk"]
    /\ UNCHANGED chatVars
    /\ UNCHANGED tlog

\* line 541: stop_reader.set(), the reader's last statement
ReaderStop ==
    /\ cli.r = "fin"
    /\ cli' = [cli EXCEPT !.r = "done", !.stop = TRUE]
    /\ UNCHANGED chatVars
    /\ UNCHANGED tlog

\* the server closes the connection, or the connection breaks
ServerDrops ==
    /\ cli.w \notin {"connect", "done"}
    /\ cli.conn = "up"
    /\ cli.drops > 0
    /\ \E how \in {"eof", "broken"} :
         cli' = [cli EXCEPT !.conn = how, !.drops = @ - 1]
    /\ UNCHANGED chatVars
    /\ UNCHANGED tlog

WriterThread ==
    \/ WriterConnect
    \/ WriterHello
    \/ WriterLoop
    \/ WriterSend
    \/ WriterStop
    \/ WriterJoin
    \/ WriterExit

ReaderThread == ReaderLoop \/ ReaderRecv \/ ReaderStop

\* ---- the state after ChatModule.__init__ (lines 379-383)
InitProgram ==
    /\ clients = <<>>
    /\ lock = 0
    /\ stopEvent = FALSE
    /\ serverReady = FALSE
    /\ srv = "off"
    /\ mainpc = "idle"
    /\ pc = [c \in Conns |-> "none"]
    /\ name = [c \in Conns |-> <<>>]
    /\ text = [c \in Conns |-> <<>>]
    /\ bcIdx = 0
    /\ bcDead = <<>>
    /\ bcSnap = <<>>
    /\ bcAtt = <<>>
    /\ cst = [c \in Conns |-> StartCst]
    /\ pclosed = [c \in Conns |-> FALSE]
    /\ sclosed = [c \in Conns |-> FALSE]
    /\ inbox = [c \in Conns |-> [o \in Conns |-> <<>>]]
    /\ purged = {}
    /\ nremoved = [c \in Conns |-> 0]
    /\ lateWrite = FALSE
    /\ failed = FALSE
    /\ nleave = [c \in Conns |-> 0]
    /\ lsock = "none"
    /\ report = "none"
    /\ runs = [n |-> 0, live |-> 0, born |-> [c \in Conns |-> 0]]

Handler(c) ==
    \/ Handshake(c)
    \/ LoopCheck(c)
    \/ Recv(c)
    \/ Teardown(c)
    \/ BcAcquire(c)
    \/ BcStep(c)
    \/ BcFinish(c)

\* ---- the whole program: the menu thread starts and stops the server, the
\* sockets may fail, clients send whole lines
Init ==
    /\ InitProgram
    /\ cli = InitCli
    /\ tlog = NoLog
    /\ env = [conns |-> PairConns, sends |-> MaxSends, starts |-> MaxStarts,
              faults |-> MaxFaults, closes |-> MaxCloses, watch |-> {},
              talk |-> Conns, anon |-> {1}, glue |-> FALSE, blank |-> FALSE]

Next ==
    \/ \E c \in Conns : Handler(c)
    \/ \E c \in Conns : ClientClose(c)
    \/ SrvBind
    \/ SrvCheck
    \/ SrvAccept
    \/ SrvAcceptTimeout
    \/ SrvAcceptError
    \/ SrvFinally
    \/ SrvExit
    \/ StartServer
    \/ StartWait
    \/ StopServer
    \/ StopJoin

Spec == Init /\ [][Next]_vars

\* ---- the fan-out: a server that is started and keeps running, as many
\* connections as the model has, one line sent
InitFan ==
    /\ InitProgram
    /\ cli = InitCli
    /\ tlog = NoLog
    /\ env = [conns |-> MaxConns, sends |-> FanSends, starts |-> 1,
              faults |-> 0, closes |-> MaxCloses, watch |-> Conns,
              talk |-> Conns, anon |-> {1}, glue |-> FALSE, blank |-> FALSE]

NextFan ==
    \/ \E c \in Conns : Handler(c)
    \/ \E c \in Conns : ClientClose(c)
    \/ SrvBind
    \/ SrvCheck
    \/ SrvAccept
    \/ SrvAcceptTimeout
    \/ StartServer
    \/ StartWait

SpecFan == InitFan /\ [][NextFan]_vars

\* ---- the byte stream of one client: the second connection sends, the first
\* is observed, and reads coalesce and split lines
InitStream ==
    /\ InitProgram
    /\ cli = InitCli
    /\ tlog = NoLog
    /\ env = [conns |-> PairConns, sends |-> StreamSends, starts |-> 1,
              faults |-> 0, closes |-> MaxCloses, watch |-> {1},
              talk |-> {2}, anon |-> {}, glue |-> TRUE, blank |-> FALSE]

SpecStream == InitStream /\ [][NextFan]_vars

\* ---- the lines of one client that is not run_client: the second connection
\* sends, empty lines among them, the first is observed, and every read
\* returns one whole line
InitLines ==
    /\ InitProgram
    /\ cli = InitCli
    /\ tlog = NoLog
    /\ env = [conns |-> PairConns, sends |-> StreamSends, starts |-> 1,
              faults |-> 0, closes |-> MaxCloses, watch |-> {1},
              talk |-> {2}, anon |-> {}, glue |-> FALSE, blank |-> TRUE]

SpecLines == InitLines /\ [][NextFan]_vars

\* ---- the life of one session as another sees it: the first connection sends
\* its nickname, a line and /quit or closes, the second is observed and may be
\* accepted at any moment of the first one's life
InitOrder ==
    /\ InitProgram
    /\ cli = InitCli
    /\ tlog = NoLog
    /\ env = [conns |-> PairConns, sends |-> StreamSends, starts |-> 1,
              faults |-> 0, closes |-> MaxCloses, watch |-> {2},
              talk |-> {1}, anon |-> {}, glue |-> FALSE, blank |-> FALSE]

SpecOrder == InitOrder /\ [][NextFan]_vars

\* ---- the transcript: as SpecLines without the empty lines, the appended
\* lines are kept, and an append may raise
InitLog ==
    /\ InitProgram
    /\ cli = InitCli
    /\ tlog = [on |-> TRUE, faults |-> MaxLogFaults, seq |-> <<>>]
    /\ env = [conns |-> PairConns, sends |-> StreamSends, starts |-> 1,
              faults |-> 0, closes |-> MaxCloses, watch |-> {1},
              talk |-> {2}, anon |-> {}, glue |-> FALSE, blank |-> FALSE]

SpecLog == InitLog /\ [][NextFan]_vars

\* ---- shutdown under fair scheduling: every handler thread and the server
\* thread keep taking steps; clients send their nickname and then at most one
\* line, and none of them closes its connection
InitLive ==
    /\ InitProgram
    /\ cli = InitCli
    /\ tlog = NoLog
    /\ env = [conns |-> PairConns, sends |-> FanSends, starts |-> 1,
              faults |-> 0, closes |-> 0, watch |-> {}, talk |-> Conns,
              anon |-> {1}, glue |-> FALSE, blank |-> FALSE]

NextLive ==
    \/ \E c \in Conns : Handler(c)
    \/ SrvBind
    \/ SrvCheck
    \/ SrvAccept
    \/ SrvAcceptTimeout
    \/ SrvFinally
    \/ SrvExit
    \/ StartServer
    \/ StartWait
    \/ StopServer
    \/ StopJoin

ServerThread == SrvBind \/ SrvCheck \/ SrvAcceptTimeout \/ SrvFinally \/ SrvExit

SpecLive ==
    /\ InitLive
    /\ [][NextLive]_vars
    /\ WF_vars(ServerThread)
    /\ \A c \in Conns : WF_vars(Handler(c))

\* ---- the registry lock under fair scheduling: as SpecLive, with the
\* transcript kept
InitLock ==
    /\ InitProgram
    /\ cli = InitCli
    /\ tlog = [on |-> TRUE, faults |-> 0, seq |-> <<>>]
    /\ env = [conns |-> PairConns, sends |-> FanSends, starts |-> 1,
              faults |-> 0, closes |-> 0, watch |-> {}, talk |-> Conns,
              anon |-> {1}, glue |-> FALSE, blank |-> FALSE]

SpecLock ==
    /\ InitLock
    /\ [][NextLive]_vars
    /\ WF_vars(ServerThread)
    /\ \A c \in Conns : WF_vars(Handler(c))

\* ---- restarts: the server is started, stopped and started again; each
\* client sends at most its nickname and every inbox is observed
InitRestart ==
    /\ InitProgram
    /\ cli = InitCli
    /\ tlog = NoLog
    /\ env = [conns |-> PairConns, sends |-> FanSends, starts |-> MaxRuns,
              faults |-> 0, closes |-> 0, watch |-> Conns, talk |-> Conns,
              anon |-> {}, glue |-> FALSE, blank |-> FALSE]

SpecRestart == InitRestart /\ [][NextLive]_vars

\* ---- one run of run_client against a server that answers and may close or
\* break the connection; the socket has a timeout or not, as the settings say;
\* both threads of the client keep taking steps, the user need not type
InitClient ==
    /\ InitProgram
    /\ tlog = NoLog
    /\ env = [conns |-> 0, sends |-> 0, starts |-> 0, faults |-> 0,
              closes |-> 0, watch |-> {}, talk |-> {}, anon |-> {},
              glue |-> FALSE, blank |-> FALSE]
    /\ \E t \in BOOLEAN :
         cli = [InitCli EXCEPT !.timed = t, !.inputs = MaxInputs,
                               !.replies = MaxReplies, !.drops = 1]

NextClient ==
    \/ WriterConnect
    \/ WriterHello
    \/ WriterLoop
    \/ WriterInput
    \/ WriterSend
    \/ WriterStop
    \/ WriterJoin
    \/ WriterExit
    \/ ReaderLoop
    \/ ReaderRecv
    \/ ReaderStop
    \/ ServerDrops

SpecClient ==
    /\ InitClient
    /\ [][NextClient]_vars
    /\ WF_vars(WriterThread)
    /\ WF_vars(ReaderThread)

TypeOK ==
    /\ lock \in 0..MaxConns
    /\ srv \in {"off", "bind", "chk", "accept", "fin", "exit"}
    /\ mainpc \in {"idle", "start_wait", "stop_join"}
    /\ \A c \in Conns : pc[c] \in {"none", "hs", "join", "join_bc", "chk", "recv",
                                    "chat", "chat_bc", "td", "leave", "leave_bc",
                                    "done", "dead"}

\* ---- the broadcast in progress, as the claims speak of it
Broadcasting == lock # 0
IterationDone == Broadcasting /\ bcIdx > Len(clients)
Recipients(att) == [i \in 1..Len(att) |-> att[i][1]]
NotSender(x) == x # Sender(lock)
Healthy(r) == ~pclosed[r] /\ ~sclosed[r]

\* C1: sender exclusion.  No sendall of a broadcast goes to the socket of the
\* session that issued it, and no client ever holds a line its own session sent.
C1_SenderExcluded ==
    /\ Broadcasting => \A i \in 1..Len(bcAtt) : bcAtt[i][1] # lock
    /\ \A c \in Conns : inbox[c][c] = <<>>

\* a chat line has been written to every other session while its sender is listed
C1_Witness ==
    /\ IterationDone
    /\ pc[lock] = "chat_bc"
    /\ InList(bcSnap, lock)
    /\ Len(bcAtt) >= 2

\* C2: delivery completeness.  While a broadcast runs the list is the one it
\* found when it took the lock, and the sendall calls made so far are, in list
\* order and once each, exactly the sessions before the iterator other than the
\* sender; every payload whose write succeeded on an open connection has
\* reached its client.
C2_DeliveredOnceToEach ==
    Broadcasting =>
        /\ clients = bcSnap
        /\ Recipients(bcAtt) =
               SelectSeq(SubSeq(bcSnap, 1, bcIdx - 1), NotSender)
        /\ \A i \in 1..Len(bcAtt) :
               (bcAtt[i][2] /\ ~pclosed[bcAtt[i][1]]) =>
                   LET box == inbox[bcAtt[i][1]][lock] IN
                   box # <<>> /\ box[Len(box)] = Payload(lock)

\* a finished iteration that wrote to two healthy sessions
C2_Witness ==
    /\ IterationDone
    /\ Len(bcAtt) = 2
    /\ \A i \in 1..Len(bcAtt) : bcAtt[i][2] /\ Healthy(bcAtt[i][1])

\* C3: a recipient whose write failed is purged.  Once the broadcast has
\* returned it is not in the list, no later sendall is attempted on it, and no
\* socket is removed from the list more than once.
C3_FailedRecipientPurged ==
    /\ \A c \in purged : ~InList(clients, c)
    /\ ~lateWrite
    /\ \A c \in Conns : nremoved[c] <= 1

\* a purged session has run its own teardown and a later broadcast has
\* finished its iteration
C3_Witness ==
    /\ IterationDone
    /\ bcAtt # <<>>
    /\ \E p \in purged :
          pc[p] \in {"leave", "done"} /\ nremoved[p] = 1 /\ p # lock

\* C4: a failed write does not abort the fan-out.  When the iteration of a
\* broadcast in which some write failed is over, every other listed session
\* whose connection is healthy has been written to successfully.
C4_FailureDoesNotAbort ==
    (IterationDone /\ \E i \in 1..Len(bcAtt) : ~bcAtt[i][2]) =>
        \A r \in Range(bcSnap) \ {Sender(lock)} :
            Healthy(r) => \E i \in 1..Len(bcAtt) : bcAtt[i] = <<r, TRUE>>

\* the write to the first listed session failed and the next one was served
C4_Witness ==
    /\ IterationDone
    /\ Len(bcAtt) = 2
    /\ ~bcAtt[1][2]
    /\ bcAtt[2][2]
    /\ Healthy(bcAtt[2][1])

\* ---- the states of a session, as the specification names them
ActivePcs == {"join", "join_bc", "chk", "recv", "chat", "chat_bc"}
Accepted == {c \in Conns : pc[c] # "none"}

\* the text symbols of the chat payloads in an inbox, in the order of arrival
RECURSIVE Flat(_)
Flat(box) ==
    IF box = <<>> THEN <<>>
    ELSE (IF box[1].k = "chat" THEN box[1].tx ELSE <<>>) \o Flat(Tail(box))

LineNo(x) ==
    IF \E i \in 1..Len(AllLines) : AllLines[i] = x
    THEN CHOOSE i \in 1..Len(AllLines) : AllLines[i] = x
    ELSE 0

IsLine(x) == LineNo(x) > 0
SentLines(box) == SelectSeq(Flat(box), IsLine)

\* C5: per-sender ordering.  The chat lines of one session that a recipient
\* holds are in the order in which the session's client sent them.
C5_PerSenderOrder ==
    \A r \in Conns : \A o \in Conns :
        LET l == SentLines(inbox[r][o]) IN
        \A i \in 1..Len(l) : \A j \in 1..Len(l) :
            i < j => LineNo(l[i]) < LineNo(l[j])

\* the first client holds the second one's lines a1 and a2 as two chat payloads
C5_Witness ==
    \E i \in 1..Len(inbox[1][2]) : \E j \in 1..Len(inbox[1][2]) :
        /\ i < j
        /\ inbox[1][2][i].k = "chat" /\ inbox[1][2][i].tx = <<AllLines[1]>>
        /\ inbox[1][2][j].k = "chat" /\ inbox[1][2][j].tx = <<AllLines[2]>>

\* C6: scenario 1.  With the first client connected and healthy, once the
\* second client's lines alice, a1 and /quit have all been read and its session
\* has ended, the first client holds exactly the join announcement of alice,
\* the chat line "alice: a1" and the leave announcement of alice.
C6_Scenario1 ==
    (/\ pc[1] # "none" /\ Healthy(1)
     /\ cst[2] = [n |-> 2, h |-> "end"]
     /\ pc[2] = "done")
    => inbox[1][2] =
         << [k |-> "join", o |-> 2, nm |-> <<NICK>>, tx |-> <<>>],
            [k |-> "chat", o |-> 2, nm |-> <<NICK>>, tx |-> <<AllLines[1]>>],
            [k |-> "leave", o |-> 2, nm |-> <<NICK>>, tx |-> <<>>] >>

\* C7: registry size.  With no failed write and no session closed by the
\* server, once every accepted session has completed its handshake and is
\* Active the list holds exactly the accepted sessions, once each; once every
\* accepted session has sent /quit and finished its teardown the list is empty.
C7_RegistrySize ==
    /\ (/\ Accepted # {}
        /\ ~failed
        /\ \A c \in Accepted : pc[c] \in ActivePcs /\ ~sclosed[c])
       => (Len(clients) = Cardinality(Accepted) /\ Range(clients) = Accepted)
    /\ (/\ Accepted # {}
        /\ \A c \in Accepted : pc[c] = "done" /\ cst[c].h = "end")
       => clients = <<>>

\* two sessions have quit and finished while the server keeps running
C7_Witness ==
    /\ Cardinality(Accepted) = 2
    /\ \A c \in Accepted : pc[c] = "done" /\ cst[c].h = "end"
    /\ ~failed /\ ~stopEvent
    /\ srv \in {"chk", "accept"}
    /\ clients = <<>>

\* C8: stop_server is idempotent.  A step taken while no server thread is
\* alive and the menu thread stays idle, which is what a stop_server call is
\* then, changes none of the stop event, the ready flag, the server thread and
\* the list; and when a call that found the server running returns, the list
\* is empty.
C8_StopServerIdempotent ==
    [][/\ (~Alive /\ Idle /\ mainpc' = "idle")
            => UNCHANGED <<stopEvent, serverReady, srv, clients>>
       /\ (mainpc = "stop_join" /\ mainpc' = "idle") => clients' = <<>>]_vars

\* C9: scenario 2.  Under fair scheduling, a session that is Active when the
\* stop event is set is eventually closed by the server and has finished its
\* teardown, with the list empty, whatever its client does.
C9_StopEndsSession ==
    \A c \in Conns :
        (stopEvent /\ pc[c] \in ActivePcs)
            ~> (sclosed[c] /\ pc[c] = "done" /\ clients = <<>>)

\* a session whose client sent its nickname and nothing else has ended after
\* the stop
C9_Witness ==
    \E c \in Conns :
        /\ stopEvent
        /\ name[c] = <<NICK>>
        /\ cst[c] = [n |-> 1, h |-> "line"]
        /\ ~pclosed[c] /\ sclosed[c]
        /\ pc[c] = "done"
        /\ clients = <<>>
        /\ ~Alive

\* C10: when stop_server returns the server thread has ended and no handler
\* is in the handshake or Active.
C10_StopWaitsForAll ==
    [][(mainpc = "stop_join" /\ mainpc' = "idle")
        => (/\ srv' = "off"
            /\ \A c \in Conns : pc'[c] \notin ({"hs"} \cup ActivePcs))]_vars

C12_RegisteredAfterHandshake ==
    /\ \A c \in Conns : pc[c] = "hs" => ~InList(clients, c)
    /\ \A i \in 1..Len(bcAtt) : pc[bcAtt[i][1]] # "hs"

\* C13: announcements exclude nobody.  When the iteration of a join broadcast
\* is over, every listed session with a healthy connection, the joining
\* session included, has been written the join line.
C13_JoinReachesEveryone ==
    (IterationDone /\ pc[lock] = "join_bc") =>
        \A r \in Range(bcSnap) :
            Healthy(r) => \E i \in 1..Len(bcAtt) : bcAtt[i] = <<r, TRUE>>

\* the payloads of an inbox, whatever their origin
Received(r) == UNION {Range(inbox[r][o]) : o \in Conns}

\* C14: /quit is never relayed.  No client holds a chat line whose text
\* contains /quit.
C14_QuitNeverRelayed ==
    \A r \in Conns : \A p \in Received(r) :
        p.k = "chat" => QUIT \notin Range(p.tx)

\* C15: an empty line is not relayed.  No client holds a chat line with
\* empty text.
C15_EmptyLineNotRelayed ==
    \A r \in Conns : \A p \in Received(r) :
        p.k = "chat" => p.tx # <<>>

\* C16: one line per payload.  No payload a client holds has a newline
\* inside its chat text or inside the nickname.
C16_NoEmbeddedNewline ==
    \A r \in Conns : \A p \in Received(r) :
        NL \notin Range(p.tx) /\ NL \notin Range(p.nm)

\* C17: the nickname comes from the first line.  A session whose client sent
\* a nickname line that has been read is known by that nickname, and no
\* client holds a chat line whose text is the nickname line.
C17_NicknameFromFirstLine ==
    /\ \A c \in Conns \ env.anon : cst[c].n >= 1 => name[c] = <<NICK>>
    /\ \A r \in Conns : \A p \in Received(r) :
           p.k = "chat" => NICK \notin Range(p.tx)

\* C18: the registry invariant.  Whenever the lock is free every listed
\* socket is one the server has not closed and no socket is listed twice; and
\* no socket is removed from the list more than once, whether by a purge, by
\* its session's teardown or by the shutdown.
C18_RegistryInvariant ==
    /\ lock = 0 => \A i \in 1..Len(clients) : ~sclosed[clients[i]]
    /\ Cardinality(Range(clients)) = Len(clients)
    /\ \A c \in Conns : nremoved[c] <= 1

\* one session was purged and has run its teardown, another is still listed,
\* and the lock is free
C18_Witness ==
    /\ lock = 0
    /\ clients # <<>>
    /\ \E c \in purged : pc[c] = "done" /\ nremoved[c] = 1

C20_AcceptErrorSurvived ==
    [][(srv = "accept" /\ env'.faults < env.faults /\ ~stopEvent)
        => (srv' = "chk" /\ clients' = clients)]_vars

\* what holds after a bind that failed: the flag is not set, the server
\* thread is not in its accept loop, and start_server has not printed success
BindFailureReported ==
    lsock = "failed" =>
        (~serverReady /\ srv \notin {"chk", "accept"} /\ report # "ok")

\* C21, as amended: the ready flag is set only after bind and listen have
\* succeeded.  Whenever it is set the listening socket is open, or the server
\* thread has left its accept loop, has closed the socket and has yet to
\* clear the flag in its finally block; and after a failed bind the flag is
\* not set, no connection is accepted and start_server prints the failure.
C21_ReadyAfterListen ==
    /\ serverReady => (lsock = "open" \/ (lsock = "closed" /\ srv = "fin"))
    /\ BindFailureReported

\* the bind has failed and start_server has printed the failure
C21_Witness ==
    /\ lsock = "failed"
    /\ report = "failed"
    /\ ~serverReady
    /\ Idle

\* C21 as stated: whenever the ready flag is set the listening socket is
\* bound and listening, and a failed bind is reported.
C21_ReadyImpliesListening ==
    /\ serverReady => lsock = "open"
    /\ BindFailureReported

\* ---- run_client, as the claims speak of it
ReaderEndedByPeer == cli.r = "done" /\ cli.rexit = "peer"
WriterWaitsForUser == cli.w = "input"

\* C22: shutdown coordination in the chat client.  Once the reader has stopped
\* because the server closed the connection or a read failed, the writer ends
\* and the client exits with no further local input; once the writer has
\* stopped, the reader ends.
C22_StopPropagates ==
    /\ ReaderEndedByPeer ~> cli.w = "done"
    /\ (cli.w = "done" /\ cli.r # "none") ~> cli.r = "done"

\* a handler thread that has ended, by its last broadcast or by an exception
HandlerEnded(c) == pc[c] \in {"done", "dead"}

\* C23: a failure of the transcript logger is not fatal to the chat core.  The
\* handler whose append raised still takes its session through the teardown:
\* once the handler has ended, its session is out of the list and its socket
\* is closed.
C23_LoggerFailureNonFatal ==
    \A c \in Conns : HandlerEnded(c) => (~InList(clients, c) /\ sclosed[c])

\* the leave announcements of session c that the client of session r holds
LeavesHeld(r, c) == SelectSeq(inbox[r][c], LAMBDA m : m.k = "leave")

\* C24: a session that a broadcast removed from the list because the write to
\* it failed is never announced as having left: no client holds a leave line
\* of it.
C24_NoLeaveAfterPurge ==
    \A c \in purged : \A r \in Conns : LeavesHeld(r, c) = <<>>

\* the broadcast of session c is in a sendall to another session
Writing(c) == lock = c /\ bcIdx <= Len(clients) /\ clients[bcIdx] # Sender(c)
AcceptPending == srv = "accept" /\ NextConn \in Conns /\ env.conns > 0

\* C25: a broadcast write in progress blocks nobody else.  While session c's
\* broadcast is in a sendall, the accept loop can register a connection it has
\* accepted, and another session that has read a line can start broadcasting it.
C25_StalledWriteBlocksNobody ==
    \A c \in Conns :
        Writing(c) =>
            /\ AcceptPending => ENABLED SrvAccept
            /\ \A o \in Conns \ {c} : pc[o] = "chat" => ENABLED BcAcquire(o)

InSection == {c \in Conns : pc[c] \in BcPcs}

\* C26: lock discipline.  The handler inside a broadcast is the one holder of
\* the lock; a handler enters a broadcast only by taking the free lock; and
\* while the lock is held the list changes only by the holder's own purge at
\* the end of its iteration, which releases the lock: no accept, teardown or
\* shutdown adds or removes a session in the middle of an iteration.
C26_LockDiscipline ==
    [][/\ InSection = (IF lock = 0 THEN {} ELSE {lock})
       /\ InSection' = (IF lock' = 0 THEN {} ELSE {lock'})
       /\ \A c \in Conns :
              (c \in InSection' /\ c \notin InSection) => lock = 0
       /\ (lock # 0 /\ clients' # clients) =>
              /\ lock' = 0
              /\ bcIdx > Len(clients)
              /\ clients' = Purge(clients, bcDead)]_vars

\* a broadcast is in a write while another session waits to unregister and
\* the shutdown waits to clear the list
C26_Witness ==
    /\ \E c \in Conns : Writing(c) /\ \E o \in Conns \ {c} : pc[o] = "td"
    /\ srv = "fin"

Kinds(box) == [i \in 1..Len(box) |-> box[i].k]

\* nothing precedes a join announcement and nothing follows a leave announcement
InLifeOrder(box) ==
    \A i \in 1..Len(box) : \A j \in 1..Len(box) :
        i < j => (box[j].k # "join" /\ box[i].k # "leave")

\* C27: per-session lifecycle order at every recipient.  In what recipient r
\* holds of session o, the join announcement, if r holds it, comes before every
\* chat line, the leave announcement comes after every chat line, and nothing
\* of o comes after its leave announcement.
C27_LifecycleOrder ==
    \A r \in Conns : \A o \in Conns : InLifeOrder(inbox[r][o])

\* the second client holds the first one's join, chat line and leave
C27_Witness ==
    Kinds(inbox[2][1]) = <<"join", "chat", "leave">>

\* C27 as stated: every chat line of session o that recipient r holds has o's
\* join announcement delivered before it, and what r holds of o is in lifecycle
\* order.
C27_JoinBeforeEveryLine ==
    \A r \in Conns : \A o \in Conns :
        LET box == inbox[r][o] IN
        /\ InLifeOrder(box)
        /\ \A i \in 1..Len(box) :
               box[i].k = "chat" => \E j \in 1..(i - 1) : box[j].k = "join"

\* the transcript entries of session c, in the order of the file
EntriesOf(c) == SelectSeq(tlog.seq, LAMBDA e : e.o = c)
LinesOf(c) == SentLines(EntriesOf(c))
InTranscript(p) == \E i \in 1..Len(tlog.seq) : tlog.seq[i] = p

\* C28: transcript order.  The entries of one session are in its event order:
\* nothing before its join entry, nothing after its leave entry, its chat lines
\* in the order its client sent them.  Every event is in the transcript before
\* it is broadcast: the payload of a handler that waits for the lock or is in
\* a broadcast is the last entry of its session, and every payload a client
\* holds is in the transcript.
C28_TranscriptOrder ==
    /\ \A c \in Conns :
         /\ InLifeOrder(EntriesOf(c))
         /\ \A i \in 1..Len(LinesOf(c)) : \A j \in 1..Len(LinesOf(c)) :
                i < j => LineNo(LinesOf(c)[i]) < LineNo(LinesOf(c)[j])
         /\ pc[c] \in WaitPcs \cup BcPcs =>
                /\ EntriesOf(c) # <<>>
                /\ EntriesOf(c)[Len(EntriesOf(c))] = Payload(c)
    /\ \A r \in Conns : \A p \in Received(r) : InTranscript(p)

\* the transcript holds the second session's join, two chat lines and leave,
\* with an entry of the first session after the second one's join
C28_Witness ==
    /\ Kinds(EntriesOf(2)) = <<"join", "chat", "chat", "leave">>
    /\ Len(tlog.seq) >= 5
    /\ tlog.seq[1].o = 2
    /\ tlog.seq[2].o = 1

WriterLeft == cli.w \in {"after", "join", "exit", "done"}

\* C29: /quit once, the socket closed once.  /quit is never sent twice and
\* nothing is sent after it; a writer that has left its loop on /quit or on
\* the end of the input has sent it once; once it is sent the writer has left
\* its loop, and past line 556 the stop signal is set; the socket is closed
\* once when run_client has left its with block, on whichever path, and not
\* before.
C29_QuitOnceCloseOnce ==
    /\ cli.nquit <= 1
    /\ ~cli.late
    /\ (WriterLeft /\ cli.wexit \in {"quit", "eof"}) => cli.nquit = 1
    /\ cli.nquit = 1 => WriterLeft
    /\ (cli.nquit = 1 /\ cli.w \in {"join", "exit", "done"}) => cli.stop
    /\ cli.nclose = (IF cli.w = "done" THEN 1 ELSE 0)

\* the user has typed a line and then /quit, and run_client has returned
C29_Witness ==
    /\ cli.w = "done"
    /\ cli.wexit = "quit"
    /\ cli.nquit = 1
    /\ cli.nclose = 1
    /\ cli.inputs = 0
    /\ cli.stop

\* C30: no deadlock on the registry lock.  A thread that holds the lock takes
\* no step that appends to a log, so it never waits for the logger inside the
\* critical section; a held lock is released; and under fair scheduling every
\* handler that waits for the lock to broadcast or to unregister gets it, and
\* the shutdown gets it to clear the list.
C30_LockAlwaysGranted ==
    /\ [][(lock # 0 /\ tlog' # tlog) =>
              (lock' = lock /\ pc'[lock] = pc[lock] /\ bcIdx' = bcIdx)]_vars
    /\ (lock # 0) ~> (lock = 0)
    /\ \A c \in Conns : (pc[c] \in WaitPcs) ~> (pc[c] \in BcPcs)
    /\ \A c \in Conns : (pc[c] = "td") ~> (pc[c] = "leave")
    /\ (srv = "fin") ~> (srv = "exit")

\* one broadcast is in a write while another handler waits for the lock with
\* its line already in the transcript
C30_Witness ==
    \E c \in Conns :
        /\ Writing(c)
        /\ \E o \in Conns \ {c} : pc[o] \in WaitPcs /\ EntriesOf(o) # <<>>

\* C31: at most one accept loop.  The number of server-loop threads alive is
\* one while the thread start_server last spawned is alive and none otherwise:
\* start_server never spawns a loop while an earlier one is alive.
C31_OneServerLoop ==
    /\ runs.live <= 1
    /\ runs.live = (IF Alive THEN 1 ELSE 0)

\* the server was restarted, and stop_server has returned from its join while
\* the second loop is still alive
C31_Witness ==
    /\ runs.n = 2
    /\ runs.live = 1
    /\ Idle
    /\ stopEvent
    /\ srv \in {"chk", "accept", "fin"}

\* C32: runs are isolated across a restart.  No client holds a line that a
\* session accepted by an earlier server loop produced.
C32_RunsIsolated ==
    \A r \in Conns : \A p \in Received(r) :
        runs.born[p.o] = runs.born[r]

====
